---- MODULE Spec2Model ----
(***************************************************************************)
(* Model of models/coreml_export.py: the export script that wraps a        *)
(* YOLOv5 detector in ExportModel, traces it (TorchScript), converts it to *)
(* Core ML, renames the detector outputs, builds a non-maximum-suppression *)
(* stage and composes both into a pipeline that is saved as .mlmodel.      *)
(*                                                                         *)
(* The script is sequential; pc is the position in the __main__ block.     *)
(* Calls into torch / coremltools are external: each one either returns or *)
(* raises, and what ct.convert returns (number of outputs, their names,    *)
(* declared shapes and element type) is drawn from small sets.             *)
(***************************************************************************)
EXTENDS Integers, Sequences, FiniteSets, TLC

VARIABLES pc, opt_labels, opt_img_size, export_model, gs, img, labels, loaded,
          model_classes, num_boxes, num_classes, ts, f, spec, nms_spec,
          pipeline, final_model, files, reports

vars == <<pc, opt_labels, opt_img_size, export_model, gs, img, labels, loaded,
          model_classes, num_boxes, num_classes, ts, f, spec, nms_spec,
          pipeline, final_model, files, reports>>

----------------------------------------------------------------------------
(* Bounds of the model *)

MaxClasses == 2
MaxBoxes == 1
MaxLabels == 2
MaxFileLen == 3
MaxImg == 2
MaxOutputs == 3

(* Input alphabets *)
LabelPool == {"a", "b"}
FileChars == {"a", ",", " "}
Strides == {1, 2}
OrigNames == {"var_1", "var_2", "raw_confidence", "raw_coordinates"}
DataTypes == {"FLOAT32", "DOUBLE"}

SeqsUpTo(S, lo, hi) == UNION {[1..n -> S] : n \in lo..hi}

(* A value that stands for "no object bound to this name yet" *)
Unbound == [unbound |-> TRUE]

----------------------------------------------------------------------------
(* Label loading, lines 57-64 *)

\* f.read().replace(",", " ")
ReplaceCommas(s) == [i \in 1..Len(s) |-> IF s[i] = "," THEN " " ELSE s[i]]

\* str.split(): the maximal runs of non-whitespace characters, in order
RECURSIVE SplitAcc(_, _, _)
SplitAcc(s, cur, out) ==
    IF s = <<>>
    THEN IF cur = "" THEN out ELSE Append(out, cur)
    ELSE IF Head(s) = " "
         THEN SplitAcc(Tail(s), "", IF cur = "" THEN out ELSE Append(out, cur))
         ELSE SplitAcc(Tail(s), cur \o Head(s), out)

Split(s) == SplitAcc(s, "", <<>>)

\* labels = f.read().replace(",", " ").split()
ReadLabelFile(content) == Split(ReplaceCommas(content))

\* [f"Class {n+1}" for n in range(num_classes)]
GenericLabels(n) == [k \in 1..n |-> "Class " \o ToString(k)]

\* ", ".join(labels)
RECURSIVE JoinLabels(_)
JoinLabels(ls) ==
    IF ls = <<>> THEN ""
    ELSE IF Len(ls) = 1 THEN ls[1]
    ELSE ls[1] \o ", " \o JoinLabels(Tail(ls))

----------------------------------------------------------------------------
(* Image size, lines 52 and 73 *)

\* opt.img_size *= 2 if len(opt.img_size) == 1 else 1
ExpandImgSize(s) == IF Len(s) = 1 THEN s \o s ELSE s

\* check_img_size(x, gs): the smallest multiple of gs that is >= x
CheckImgSize(x, s) == ((x + s - 1) \div s) * s

----------------------------------------------------------------------------
(* ExportModel.forward, lines 32-42.  A raw row is                         *)
(* [x, y, w, h, objectness, class_0 .. class_C-1]; a quotient a * (1/b) is *)
(* kept as the pair <<a, b>>.                                              *)

ExportModel_forward(row, img_size) ==
    LET w == img_size[1]
        h == img_size[2]
        objectness == row[5]
        class_probs == [c \in 1..(Len(row) - 5) |-> row[5 + c] * objectness]
        scale == <<w, h, w, h>>
        boxes == [k \in 1..4 |-> <<row[k], scale[k]>>]
    IN  <<class_probs, boxes>>

----------------------------------------------------------------------------
Init ==
    /\ pc = "expand"
    /\ gs \in Strides
    /\ model_classes \in 1..MaxClasses
    /\ opt_labels \in SeqsUpTo(LabelPool, 0, MaxLabels)
    /\ opt_img_size \in SeqsUpTo(1..MaxImg, 1, 2)
    /\ export_model = Unbound
    /\ img = Unbound
    /\ labels = <<>>
    /\ loaded = <<>>
    /\ num_boxes = 0
    /\ num_classes = 0
    /\ ts = Unbound
    /\ f = ""
    /\ spec = Unbound
    /\ nms_spec = Unbound
    /\ pipeline = Unbound
    /\ final_model = Unbound
    /\ files = {}
    /\ reports = <<>>

\* line 52
Expand ==
    /\ pc = "expand"
    /\ opt_img_size' = ExpandImgSize(opt_img_size)
    /\ pc' = "get_labels"
    /\ UNCHANGED <<opt_labels, export_model, gs, img, labels, loaded,
                   model_classes, num_boxes, num_classes, ts, f, spec,
                   nms_spec, pipeline, final_model, files, reports>>

\* lines 57-64: labels come from the command line, or from the file it names
GetLabels ==
    /\ pc = "get_labels"
    /\ \/ /\ opt_labels = <<>>
          /\ labels' = <<>>
       \/ /\ opt_labels # <<>>
          /\ Len(opt_labels) = 1
          /\ \E content \in SeqsUpTo(FileChars, 0, MaxFileLen) :
                labels' = ReadLabelFile(content)
       \/ /\ opt_labels # <<>>
          /\ labels' = opt_labels
    /\ loaded' = labels'
    /\ pc' = "load_model"
    /\ UNCHANGED <<opt_labels, opt_img_size, export_model, gs, img,
                   model_classes, num_boxes, num_classes, ts, f, spec,
                   nms_spec, pipeline, final_model, files, reports>>

\* lines 66-69: export_model keeps the image size list it is given
LoadModel ==
    /\ pc = "load_model"
    /\ export_model' = [img_size |-> opt_img_size]
    /\ pc' = "checks"
    /\ UNCHANGED <<opt_labels, opt_img_size, gs, img, labels, loaded,
                   model_classes, num_boxes, num_classes, ts, f, spec,
                   nms_spec, pipeline, final_model, files, reports>>

\* lines 72-73: opt.img_size is rebound to a new, stride-adjusted list
Checks ==
    /\ pc = "checks"
    /\ opt_img_size' = [i \in 1..Len(opt_img_size) |->
                            CheckImgSize(opt_img_size[i], gs)]
    /\ pc' = "dry_run"
    /\ UNCHANGED <<opt_labels, export_model, gs, img, labels, loaded,
                   model_classes, num_boxes, num_classes, ts, f, spec,
                   nms_spec, pipeline, final_model, files, reports>>

\* lines 76-93: img = zeros(1, 3, height, width); the dry run gives the
\* detector's output shape [1, num_boxes, 5 + num_classes]
DryRun ==
    /\ pc = "dry_run"
    /\ img' = [height |-> opt_img_size[1], width |-> opt_img_size[2]]
    /\ \E n \in 1..MaxBoxes : num_boxes' = n
    /\ num_classes' = model_classes
    /\ pc' = "check_labels"
    /\ UNCHANGED <<opt_labels, opt_img_size, export_model, gs, labels, loaded,
                   model_classes, ts, f, spec, nms_spec, pipeline, final_model,
                   files, reports>>

\* CheckLabels without the assert of line 96
CheckLabels_NoAssert ==
    /\ pc = "check_labels"
    /\ IF labels # <<>>
       THEN /\ pc' = "torchscript"
            /\ UNCHANGED labels
       ELSE /\ labels' = GenericLabels(num_classes)
            /\ pc' = "torchscript"
    /\ UNCHANGED <<opt_labels, opt_img_size, export_model, gs, img, loaded,
                   model_classes, num_boxes, num_classes, ts, f, spec,
                   nms_spec, pipeline, final_model, files, reports>>

\* lines 95-99: the assert is outside every try block
CheckLabels ==
    /\ pc = "check_labels"
    /\ IF labels # <<>>
       THEN /\ pc' = IF Len(labels) = num_classes THEN "torchscript"
                                                  ELSE "aborted"
            /\ UNCHANGED labels
       ELSE /\ labels' = GenericLabels(num_classes)
            /\ pc' = "torchscript"
    /\ UNCHANGED <<opt_labels, opt_img_size, export_model, gs, img, loaded,
                   model_classes, num_boxes, num_classes, ts, f, spec,
                   nms_spec, pipeline, final_model, files, reports>>

\* lines 104-111: f is computed, the module is traced; nothing is saved and
\* no success line is printed
TorchScriptExport ==
    /\ pc = "torchscript"
    /\ f' = ".torchscript.pt"
    /\ \E ok \in BOOLEAN :
          IF ok
          THEN /\ ts' = [img_size |-> export_model.img_size]
               /\ UNCHANGED reports
          ELSE /\ UNCHANGED ts
               /\ reports' = Append(reports, [prefix |-> "TorchScript:",
                                               outcome |-> "export failure",
                                               e |-> "TraceError"])
    /\ pc' = "coreml_import"
    /\ UNCHANGED <<opt_labels, opt_img_size, export_model, gs, img, labels,
                   loaded, model_classes, num_boxes, num_classes, spec,
                   nms_spec, pipeline, final_model, files>>

----------------------------------------------------------------------------
(* Core ML feature descriptions.  A FeatureDescription is the record       *)
(* [name, featureType, shape, sizeRanges, dataType, shortDescription].     *)

Feature(name, featureType, shape, dataType) ==
    [name |-> name, featureType |-> featureType, shape |-> shape,
     sizeRanges |-> <<>>, dataType |-> dataType, shortDescription |-> ""]

\* the names ct.convert gives to outputs beyond the first two
ExtraName(i) == "var_" \o ToString(i)

\* what ct.convert(ts, inputs=[ImageType(name='image', shape=img.shape)])
\* returns: one image input and n multi-array outputs
ConvertedSpec(n, names, declared, dt) ==
    [input  |-> << Feature("image", "image", <<3, img.height, img.width>>, "") >>,
     output |-> [i \in 1..n |->
                   Feature(IF i <= 2 THEN names[i] ELSE ExtraName(i),
                           "multiArray",
                           IF ~declared THEN <<>>
                           ELSE IF i = 1 THEN <<num_boxes, num_classes>>
                           ELSE <<num_boxes, 4>>,
                           dt)]]

\* ct.utils.rename_feature(spec, current_name, new_name): every input and
\* every output whose name is current_name gets new_name
rename_feature(s, current_name, new_name) ==
    LET ren(fs) == [i \in DOMAIN fs |->
                      IF fs[i].name = current_name
                      THEN [fs[i] EXCEPT !.name = new_name]
                      ELSE fs[i]]
    IN  [s EXCEPT !.input = ren(s.input), !.output = ren(s.output)]

\* lines 126-133
RenamedSpec(s) ==
    LET old_box_output_name == s.output[2].name
        old_scores_output_name == s.output[1].name
        s1 == rename_feature(s, old_scores_output_name, "raw_confidence")
        s2 == rename_feature(s1, old_box_output_name, "raw_coordinates")
    IN  [s2 EXCEPT
           !.output[1].shape = @ \o <<num_boxes, num_classes>>,
           !.output[2].shape = @ \o <<num_boxes, 4>>,
           !.output[1].dataType = "DOUBLE",
           !.output[2].dataType = "DOUBLE"]

\* lines 155-162 for one output: two size ranges are added and set, the
\* fixed shape is deleted
WithShapeRange(t, size) ==
    LET unset == [lowerBound |-> 0, upperBound |-> 0]
        r1 == Append(t.sizeRanges, unset)
        r2 == [r1 EXCEPT ![1] = [lowerBound |-> 0, upperBound |-> -1]]
        r3 == Append(r2, unset)
        r4 == [r3 EXCEPT ![2] = [lowerBound |-> size, upperBound |-> size]]
    IN  [t EXCEPT !.sizeRanges = r4, !.shape = <<>>]

\* lines 172-173, written as str() prints them
default_iou_threshold == "0.45"
default_confidence_threshold == "0.6"

\* lines 138-177
NmsSpec(s, ls) ==
    LET decoder_output(i) == s.output[i]
        output_sizes == <<num_classes, 4>>
        named == << [decoder_output(1) EXCEPT !.name = "confidence"],
                    [decoder_output(2) EXCEPT !.name = "coordinates"] >>
    IN  [specificationVersion |-> 3,
         input  |-> << decoder_output(1), decoder_output(2) >>,
         output |-> [i \in 1..2 |-> WithShapeRange(named[i], output_sizes[i])],
         nonMaximumSuppression |->
           [confidenceInputFeatureName          |-> "raw_confidence",
            coordinatesInputFeatureName         |-> "raw_coordinates",
            confidenceOutputFeatureName         |-> "confidence",
            coordinatesOutputFeatureName        |-> "coordinates",
            iouThresholdInputFeatureName        |-> "iouThreshold",
            confidenceThresholdInputFeatureName |-> "confidenceThreshold",
            iouThreshold        |-> default_iou_threshold,
            confidenceThreshold |-> default_confidence_threshold,
            pickTopPerClass     |-> TRUE,
            stringClassLabels   |-> ls]]

\* Pipeline(input_features, output_features), lines 183-189: the declared
\* outputs are string features until they are overwritten
NewPipeline(input_features, output_features) ==
    [input  |-> input_features,
     output |-> [i \in DOMAIN output_features |->
                   Feature(output_features[i], "string", <<>>, "")],
     models |-> <<>>,
     metadata |-> [shortDescription |-> "", author |-> "", userDefined |-> <<>>],
     specificationVersion |-> 1]

\* PipelineSpec without the copy of lines 199-200: the declared outputs stay
\* as Pipeline() made them
PipelineSpec_NoOutputCopy(s, nms, ls) ==
    LET input_features == << Feature("image", "multiArray", <<3, 300, 300>>, "DOUBLE"),
                             Feature("iouThreshold", "double", <<>>, ""),
                             Feature("confidenceThreshold", "double", <<>>, "") >>
        output_features == << "confidence", "coordinates" >>
        p0 == NewPipeline(input_features, output_features)
        p1 == [p0 EXCEPT !.models = Append(Append(@, s), nms)]
        p2 == [p1 EXCEPT !.input[1]  = s.input[1]]
    IN  [p2 EXCEPT
           !.input[2].shortDescription = "(optional) IOU Threshold override",
           !.input[3].shortDescription = "(optional) Confidence Threshold override",
           !.output[1].shortDescription = "Boxes Class confidence",
           !.output[2].shortDescription =
               "Boxes [x, y, width, height] (relative to image size)",
           !.specificationVersion = 3]

\* lines 183-222
PipelineSpec(s, nms, ls) ==
    LET input_features == << Feature("image", "multiArray", <<3, 300, 300>>, "DOUBLE"),
                             Feature("iouThreshold", "double", <<>>, ""),
                             Feature("confidenceThreshold", "double", <<>>, "") >>
        output_features == << "confidence", "coordinates" >>
        p0 == NewPipeline(input_features, output_features)
        p1 == [p0 EXCEPT !.models = Append(Append(@, s), nms)]
        p2 == [p1 EXCEPT !.input[1]  = s.input[1],
                         !.output[1] = nms.output[1],
                         !.output[2] = nms.output[2]]
    IN  [p2 EXCEPT
           !.input[2].shortDescription = "(optional) IOU Threshold override",
           !.input[3].shortDescription = "(optional) Confidence Threshold override",
           !.output[1].shortDescription = "Boxes Class confidence",
           !.output[2].shortDescription =
               "Boxes [x, y, width, height] (relative to image size)",
           !.metadata = [shortDescription |-> "YOLO v5 card detector",
                         author |-> "Pocket Pixels Inc.",
                         userDefined |->
                           << <<"iou_threshold", default_iou_threshold>>,
                              <<"confidence_threshold", default_confidence_threshold>>,
                              <<"classes", JoinLabels(ls)>> >>],
           !.specificationVersion = 3]

----------------------------------------------------------------------------
(* The CoreML try block, lines 115-230.  Any exception raised inside it is *)
(* caught at line 229 and reported at line 230; the script then finishes.  *)

CoreMLFailure(e) ==
    /\ reports' = Append(reports, [prefix |-> "CoreML:",
                                   outcome |-> "export failure", e |-> e])
    /\ pc' = "finish"

\* lines 116-121
CoreMLImport ==
    /\ pc = "coreml_import"
    /\ \E ok \in BOOLEAN :
          IF ok THEN pc' = "convert" /\ UNCHANGED reports
                ELSE CoreMLFailure("ImportError")
    /\ UNCHANGED <<opt_labels, opt_img_size, export_model, gs, img, labels,
                   loaded, model_classes, num_boxes, num_classes, ts, f, spec,
                   nms_spec, pipeline, final_model, files>>

\* line 123: reading ts raises NameError when the trace did not bind it
Convert ==
    /\ pc = "convert"
    /\ IF ts = Unbound
       THEN CoreMLFailure("NameError") /\ UNCHANGED spec
       ELSE \/ CoreMLFailure("ConvertError") /\ UNCHANGED spec
            \/ /\ \E n \in 0..MaxOutputs, declared \in BOOLEAN, dt \in DataTypes :
                  \E names \in {nm \in [1..2 -> OrigNames] : nm[1] # nm[2]} :
                     spec' = ConvertedSpec(n, names, declared, dt)
               /\ pc' = "rename"
               /\ UNCHANGED reports
    /\ UNCHANGED <<opt_labels, opt_img_size, export_model, gs, img, labels,
                   loaded, model_classes, num_boxes, num_classes, ts, f,
                   nms_spec, pipeline, final_model, files>>

\* Rename that skips the step instead of raising when an output is missing
Rename_SkipsMissing ==
    /\ pc = "rename"
    /\ IF Len(spec.output) < 2
       THEN pc' = "finish" /\ UNCHANGED <<spec, reports>>
       ELSE /\ spec' = RenamedSpec(spec)
            /\ \E ok \in BOOLEAN :
                  IF ok THEN pc' = "build_nms" /\ UNCHANGED reports
                        ELSE CoreMLFailure("RenameError")
    /\ UNCHANGED <<opt_labels, opt_img_size, export_model, gs, img, labels,
                   loaded, model_classes, num_boxes, num_classes, ts, f,
                   nms_spec, pipeline, final_model, files>>

\* lines 125-135: output[1] and output[0] are indexed without a length check
Rename ==
    /\ pc = "rename"
    /\ IF Len(spec.output) < 2
       THEN CoreMLFailure("IndexError") /\ UNCHANGED spec
       ELSE /\ spec' = RenamedSpec(spec)
            /\ \E ok \in BOOLEAN :
                  IF ok THEN pc' = "build_nms" /\ UNCHANGED reports
                        ELSE CoreMLFailure("RenameError")
    /\ UNCHANGED <<opt_labels, opt_img_size, export_model, gs, img, labels,
                   loaded, model_classes, num_boxes, num_classes, ts, f,
                   nms_spec, pipeline, final_model, files>>

\* lines 137-179
BuildNMS ==
    /\ pc = "build_nms"
    /\ nms_spec' = NmsSpec(spec, labels)
    /\ \E ok \in BOOLEAN :
          IF ok THEN pc' = "compose" /\ UNCHANGED reports
                ELSE CoreMLFailure("NMSError")
    /\ UNCHANGED <<opt_labels, opt_img_size, export_model, gs, img, labels,
                   loaded, model_classes, num_boxes, num_classes, ts, f, spec,
                   pipeline, final_model, files>>

\* Compose that writes the pipeline file before MLModel(pipeline.spec)
Compose_SavesFirst ==
    /\ pc = "compose"
    /\ pipeline' = PipelineSpec(spec, nms_spec, labels)
    /\ files' = files \cup {[name |-> ".mlmodel", complete |-> TRUE]}
    /\ \E ok \in BOOLEAN :
          IF ok THEN /\ final_model' = pipeline'
                     /\ pc' = "save"
                     /\ UNCHANGED reports
                ELSE /\ UNCHANGED final_model
                     /\ CoreMLFailure("PipelineError")
    /\ UNCHANGED <<opt_labels, opt_img_size, export_model, gs, img, labels,
                   loaded, model_classes, num_boxes, num_classes, ts, f, spec,
                   nms_spec>>

\* lines 181-224
Compose ==
    /\ pc = "compose"
    /\ pipeline' = PipelineSpec(spec, nms_spec, labels)
    /\ \E ok \in BOOLEAN :
          IF ok THEN /\ final_model' = pipeline'
                     /\ pc' = "save"
                     /\ UNCHANGED reports
                ELSE /\ UNCHANGED final_model
                     /\ CoreMLFailure("PipelineError")
    /\ UNCHANGED <<opt_labels, opt_img_size, export_model, gs, img, labels,
                   loaded, model_classes, num_boxes, num_classes, ts, f, spec,
                   nms_spec, files>>

\* lines 226-227: save may raise before the file is created, or after it
\* was created and before it is complete
Save ==
    /\ pc = "save"
    /\ f' = ".mlmodel"
    /\ \/ /\ files' = files \cup {[name |-> f', complete |-> TRUE]}
          /\ pc' = "report"
          /\ UNCHANGED reports
       \/ /\ files' = files \cup {[name |-> f', complete |-> FALSE]}
          /\ CoreMLFailure("SaveError")
       \/ /\ UNCHANGED files
          /\ CoreMLFailure("SaveError")
    /\ UNCHANGED <<opt_labels, opt_img_size, export_model, gs, img, labels,
                   loaded, model_classes, num_boxes, num_classes, ts, spec,
                   nms_spec, pipeline, final_model>>

\* line 228: file_size(f) and print are still inside the try block
ReportSuccess ==
    /\ pc = "report"
    /\ \/ /\ reports' = Append(reports, [prefix |-> "CoreML:",
                                          outcome |-> "export success",
                                          e |-> ""])
          /\ pc' = "finish"
       \/ CoreMLFailure("ReportError")
    /\ UNCHANGED <<opt_labels, opt_img_size, export_model, gs, img, labels,
                   loaded, model_classes, num_boxes, num_classes, ts, f, spec,
                   nms_spec, pipeline, final_model, files>>

\* line 233
Finish ==
    /\ pc = "finish"
    /\ pc' = "done"
    /\ UNCHANGED <<opt_labels, opt_img_size, export_model, gs, img, labels,
                   loaded, model_classes, num_boxes, num_classes, ts, f, spec,
                   nms_spec, pipeline, final_model, files, reports>>

Next ==
    \/ Expand
    \/ GetLabels
    \/ LoadModel
    \/ Checks
    \/ DryRun
    \/ CheckLabels
    \/ TorchScriptExport
    \/ CoreMLImport
    \/ Convert
    \/ Rename
    \/ BuildNMS
    \/ Compose
    \/ Save
    \/ ReportSuccess
    \/ Finish

Spec == Init /\ [][Next]_vars

----------------------------------------------------------------------------
(* Vocabulary of the properties *)

Reported(prefix, outcome) ==
    \E i \in DOMAIN reports :
        reports[i].prefix = prefix /\ reports[i].outcome = outcome

FailedWith(e) ==
    \E i \in DOMAIN reports :
        /\ reports[i].prefix = "CoreML:"
        /\ reports[i].outcome = "export failure"
        /\ reports[i].e = e

CoreMLFailed == Reported("CoreML:", "export failure")
TraceFailed == Reported("TorchScript:", "export failure")
FileExists(name) == \E fl \in files : fl.name = name

\* the script has passed the label check of lines 95-99
PastLabelCheck ==
    pc \notin {"expand", "get_labels", "load_model", "checks", "dry_run",
               "check_labels"}

\* the Interface Renamer (lines 125-135) has completed
Renamed == pc \in {"build_nms", "compose", "save", "report"}

\* the failures that can be raised before final_model.save is called
BeforeSave == {"ImportError", "NameError", "ConvertError", "IndexError",
               "RenameError", "NMSError", "PipelineError"}

ClassLabels == nms_spec.nonMaximumSuppression.stringClassLabels

----------------------------------------------------------------------------
\* C1: whenever the CoreML attempt has failed and tracing did not fail, the
\* .torchscript.pt artifact has been persisted and the TorchScript attempt
\* has been reported as successful.
C1_TorchScriptDoneBeforeCoreMLFailure ==
    (CoreMLFailed /\ ~TraceFailed) =>
        /\ FileExists(".torchscript.pt")
        /\ Reported("TorchScript:", "export success")

\* C2: a failed TorchScript attempt is reported, does not abort the script
\* and is not the cause of a CoreML failure; when the script is done each
\* attempt has reported its own success or failure.
C2_AttemptsIsolated ==
    /\ TraceFailed => (pc # "aborted" /\ ~FailedWith("NameError"))
    /\ pc = "done" =>
          /\ TraceFailed \/ Reported("TorchScript:", "export success")
          /\ CoreMLFailed \/ Reported("CoreML:", "export success")

\* C3 (as stated): a pipeline file exists only once detector stage,
\* suppression stage and pipeline are all constructed, and whenever the
\* CoreML attempt is reported as failed no pipeline file exists.
C3_NoArtifactOnFailure ==
    /\ FileExists(".mlmodel") =>
          (spec # Unbound /\ nms_spec # Unbound /\ final_model # Unbound)
    /\ CoreMLFailed => ~FileExists(".mlmodel")

\* C3 (amended): a pipeline file exists only once detector stage,
\* suppression stage and pipeline are all constructed, and a failure raised
\* before the save call (import, conversion, renaming, suppression-stage
\* building, composition) leaves no pipeline file.
C3_SaveAfterConstruction ==
    /\ FileExists(".mlmodel") =>
          (spec # Unbound /\ nms_spec # Unbound /\ final_model # Unbound)
    /\ \A e \in BeforeSave : FailedWith(e) => ~FileExists(".mlmodel")

C3_Witness ==
    /\ pc = "done"
    /\ FailedWith("PipelineError")
    /\ pipeline # Unbound
    /\ files = {}

\* C4 (as stated): a supplied label list of the right length becomes
\* classLabels verbatim, one of another length aborts with no pipeline, no
\* supplied labels give "Class 1" .. "Class N"; classLabels always has
\* num_classes entries.
C4_LabelsAsSupplied ==
    PastLabelCheck =>
        /\ (opt_labels # <<>> /\ Len(loaded) = num_classes) =>
              /\ labels = loaded
              /\ nms_spec # Unbound => ClassLabels = loaded
        /\ (opt_labels # <<>> /\ Len(loaded) # num_classes) =>
              (pc = "aborted" /\ pipeline = Unbound /\ files = {})
        /\ opt_labels = <<>> => labels = GenericLabels(num_classes)
        /\ nms_spec # Unbound => Len(ClassLabels) = num_classes

\* C4 (amended): a non-empty loaded label list of the right length becomes
\* classLabels verbatim, a non-empty one of another length aborts with no
\* pipeline, and an empty one (no --labels, or a label file without labels)
\* gives "Class 1" .. "Class N"; classLabels always has num_classes entries.
C4_LabelsAsLoaded ==
    PastLabelCheck =>
        /\ (loaded # <<>> /\ Len(loaded) = num_classes) =>
              /\ labels = loaded
              /\ nms_spec # Unbound => ClassLabels = loaded
        /\ (loaded # <<>> /\ Len(loaded) # num_classes) =>
              (pc = "aborted" /\ pipeline = Unbound /\ files = {})
        /\ loaded = <<>> =>
              /\ pc # "aborted"
              /\ labels = GenericLabels(num_classes)
              /\ nms_spec # Unbound => ClassLabels = GenericLabels(num_classes)
        /\ nms_spec # Unbound => Len(ClassLabels) = num_classes

C4_Witness ==
    /\ final_model # Unbound
    /\ opt_labels = <<"b", "a">>
    /\ ClassLabels = <<"b", "a">>

\* C5: a composed pipeline declares exactly the outputs "confidence" and
\* "coordinates", each equal to the suppression stage's output up to the
\* short description, with no fixed shape and the shape range
\* [0, unbounded] x [num_classes] resp. [0, unbounded] x [4].
C5_PipelineOutputs ==
    final_model # Unbound =>
        /\ Len(final_model.output) = 2
        /\ final_model.output[1].name = "confidence"
        /\ final_model.output[2].name = "coordinates"
        /\ \A i \in 1..2 :
              /\ [final_model.output[i] EXCEPT !.shortDescription =
                      nms_spec.output[i].shortDescription] = nms_spec.output[i]
              /\ final_model.output[i].featureType = "multiArray"
              /\ final_model.output[i].shape = <<>>
              /\ Len(final_model.output[i].sizeRanges) = 2
              /\ final_model.output[i].sizeRanges[1] =
                     [lowerBound |-> 0, upperBound |-> -1]
        /\ final_model.output[1].sizeRanges[2] =
               [lowerBound |-> num_classes, upperBound |-> num_classes]
        /\ final_model.output[2].sizeRanges[2] =
               [lowerBound |-> 4, upperBound |-> 4]

C5_Witness ==
    /\ final_model # Unbound
    /\ num_classes = 2
    /\ Len(spec.output[1].shape) > 2
    /\ FileExists(".mlmodel")

\* C6: the traced normalizer divides [x, y, w, h] by [W, H, W, H], W and H
\* the width and height of the image tensor fed to the detector, so boxes
\* inside the image are mapped into [0, 1].
C6_NormalizedByFedImage ==
    ts # Unbound =>
        \A x \in 0..img.width, y \in 0..img.height :
            LET row == <<x, y, x, y, 1>> \o [c \in 1..num_classes |-> 1]
                boxes == ExportModel_forward(row, ts.img_size)[2]
                fed == <<img.width, img.height, img.width, img.height>>
            IN  \A k \in 1..4 :
                   /\ boxes[k][2] = fed[k]
                   /\ 0 <= boxes[k][1] /\ boxes[k][1] <= boxes[k][2]

\* C7: after the Interface Renamer, output 0 is named "raw_confidence" and
\* output 1 is named "raw_coordinates", whatever the original names were.
C7_RenamedNames ==
    Renamed =>
        /\ spec.output[1].name = "raw_confidence"
        /\ spec.output[2].name = "raw_coordinates"

\* C8: after the Interface Renamer, output 0 has shape
\* [num_boxes, num_classes], output 1 has shape [num_boxes, 4] and both are
\* double precision, whatever was declared before.
C8_RenamedShapes ==
    Renamed =>
        /\ spec.output[1].shape = <<num_boxes, num_classes>>
        /\ spec.output[2].shape = <<num_boxes, 4>>
        /\ spec.output[1].dataType = "DOUBLE"
        /\ spec.output[2].dataType = "DOUBLE"

\* C9: each of the six feature-name bindings of the suppression stage is
\* the name of one of that stage's declared inputs or outputs.
C9_BindingsDeclared ==
    nms_spec # Unbound =>
        LET nms == nms_spec.nonMaximumSuppression
            declared == {nms_spec.input[i].name : i \in DOMAIN nms_spec.input}
                        \cup
                        {nms_spec.output[i].name : i \in DOMAIN nms_spec.output}
        IN  /\ nms.confidenceInputFeatureName \in declared
            /\ nms.coordinatesInputFeatureName \in declared
            /\ nms.confidenceOutputFeatureName \in declared
            /\ nms.coordinatesOutputFeatureName \in declared
            /\ nms.iouThresholdInputFeatureName \in declared
            /\ nms.confidenceThresholdInputFeatureName \in declared

\* C10 (as stated): a sub-graph whose number of outputs is not two never
\* yields a pipeline, and the CoreML attempt on it ends as a failure.
C10_NotTwoOutputsFails ==
    (spec # Unbound /\ Len(spec.output) # 2) =>
        /\ pipeline = Unbound /\ final_model = Unbound
        /\ ~FileExists(".mlmodel")
        /\ pc = "done" => CoreMLFailed

\* C10 (amended): a sub-graph with fewer than two outputs never yields a
\* suppression stage, a pipeline or a pipeline file, and once the Interface
\* Renamer has run on it the CoreML attempt has failed on the missing
\* output; with two or more outputs the step never fails on a missing
\* output.
C10_FewerThanTwoOutputsFails ==
    spec # Unbound =>
        IF Len(spec.output) < 2
        THEN /\ nms_spec = Unbound /\ pipeline = Unbound /\ final_model = Unbound
             /\ ~FileExists(".mlmodel")
             /\ pc # "rename" => FailedWith("IndexError")
        ELSE ~FailedWith("IndexError")

C10_Witness ==
    /\ pc = "done"
    /\ spec # Unbound
    /\ Len(spec.output) = 1
    /\ FailedWith("IndexError")
====
